---- MODULE Spec2Model ----
(***************************************************************************)
(* Model of the TitanKeys dictionary tools:                                *)
(*   tools/dictionaries/merge_dictionaries.py  (normalize, group, merge)   *)
(*   tools/dictionaries/extract_ngrams.py      (normalize, tokenize, count)*)
(*   tools/dictionaries/download_corpora.py    (frequency list conversion) *)
(*   tools/dictionaries/build_complete_dictionary.py  (merge step)         *)
(*                                                                         *)
(* A string is a sequence of characters; a character is a one-element      *)
(* name.  Characters outside ASCII are written by name: "e_acute" is the   *)
(* letter e with an acute accent, "E_acute" its capital, "u_uml" is u with *)
(* a diaeresis (an accented letter the tools' tables do not list).         *)
(***************************************************************************)
EXTENDS Integers, Sequences, FiniteSets, TLC

VARIABLES
  \* merge_dictionaries.py
  files,            \* what each input file is: a list document, or not
  stores,           \* the entry list of each input file, in command-line order
  strategy,         \* --strategy
  min_frequency,    \* --min-freq
  all_entries,      \* the entries of all files, concatenated
  word_groups,      \* normalized word -> entries, in insertion order
  merged_entries,   \* the merged, filtered and sorted entries
  output_file,      \* what the output file holds (NoFile: never written)
  result,           \* what merge_dictionaries returned
  reported,         \* the warnings and errors printed so far
  exit_code,        \* the exit status of the process
  \* extract_ngrams.py
  input_file,       \* whether the input text file can be read
  lines,            \* the lines of the input text file
  min_freq,         \* --min-freq
  line_count,       \* lines read so far
  bigrams,          \* word1 -> word2 -> count
  trigrams,         \* word1 -> word2 -> word3 -> count
  output_bigrams,   \* what the bigram output file holds
  output_trigrams,  \* what the trigram output file holds
  \* normalize_word, on its own
  token,            \* the string handed to the two normalize_word functions
  merge_key,        \* what merge_dictionaries.normalize_word returned
  ngram_key,        \* what extract_ngrams.normalize_word returned
  \* download_corpora.py, the conversion of a downloaded frequency list
  source_lines,     \* the lines of the downloaded text file
  limit,            \* the most entries convert_wikipedia_to_json accepts
  json_entries,     \* the entries accepted so far
  json_file,        \* what the converted JSON file holds
  \* build_complete_dictionary.py, the merge step
  language,         \* --language
  base_dict,        \* what the base dictionary of the language holds
  corpora_dir,      \* the files of the corpora directory, in listing order
  build_log,        \* per run of build_dictionary: the inputs of its merge
                    \* command, the merged file after it, and what it returned
  pc                \* where the run is

mergeData ==
  << files, stores, strategy, min_frequency, all_entries, word_groups,
     merged_entries, output_file, result >>

mergeVars == << mergeData, reported >>

extractVars ==
  << input_file, lines, min_freq, line_count, bigrams, trigrams,
     output_bigrams, output_trigrams >>

normalizeVars == << token, merge_key, ngram_key >>

convertVars == << source_lines, limit, json_entries, json_file >>

buildVars == << language, base_dict, corpora_dir, build_log >>

vars ==
  << mergeVars, extractVars, normalizeVars, convertVars, buildVars, exit_code, pc >>

Range(s) == {s[i] : i \in 1..Len(s)}

IndexOf(s, c) == CHOOSE i \in 1..Len(s) : s[i] = c

\* ------------------------------------------------------------------ text

LowerAlpha ==
  << "a", "b", "c", "d", "e", "f", "g", "h", "i", "j", "k", "l", "m",
     "n", "o", "p", "q", "r", "s", "t", "u", "v", "w", "x", "y", "z" >>

UpperAlpha ==
  << "A", "B", "C", "D", "E", "F", "G", "H", "I", "J", "K", "L", "M",
     "N", "O", "P", "Q", "R", "S", "T", "U", "V", "W", "X", "Y", "Z" >>

\* The accented letters the tools fold, their capitals, and what each folds to.
AccentLower ==
  << "a_grave", "e_grave", "e_acute", "i_grave", "o_grave", "o_acute", "u_grave" >>

AccentUpper ==
  << "A_grave", "E_grave", "E_acute", "I_grave", "O_grave", "O_acute", "U_grave" >>

AccentBase == << "a", "e", "e", "i", "o", "o", "u" >>

\* Letters with an accent that is in no table of the tools.
OtherLower == << "u_uml" >>

OtherUpper == << "U_uml" >>

Whitespace == {" ", "\t", "\n"}

Digits == {"0", "1", "2", "3", "4", "5", "6", "7", "8", "9"}

\* str.lower() on one character: capitals (accented ones too) go to their
\* small letter, every other character is unchanged.
lower_char(c) ==
  IF c \in Range(UpperAlpha) THEN LowerAlpha[IndexOf(UpperAlpha, c)]
  ELSE IF c \in Range(AccentUpper) THEN AccentLower[IndexOf(AccentUpper, c)]
  ELSE IF c \in Range(OtherUpper) THEN OtherLower[IndexOf(OtherUpper, c)]
  ELSE c

RECURSIVE lower(_)
lower(word) ==
  IF word = << >> THEN << >> ELSE << lower_char(Head(word)) >> \o lower(Tail(word))

\* str.strip(): leading and trailing whitespace removed.
RECURSIVE lstrip(_)
lstrip(word) ==
  IF word # << >> /\ Head(word) \in Whitespace THEN lstrip(Tail(word)) ELSE word

RECURSIVE rstrip(_)
rstrip(word) ==
  IF word # << >> /\ word[Len(word)] \in Whitespace
  THEN rstrip(SubSeq(word, 1, Len(word) - 1))
  ELSE word

strip(word) == rstrip(lstrip(word))

\* str.replace(old, new) for one-character old and new.
RECURSIVE replace(_, _, _)
replace(word, old, new) ==
  IF word = << >> THEN << >>
  ELSE << IF Head(word) = old THEN new ELSE Head(word) >> \o replace(Tail(word), old, new)

\* The chain word.replace(t[1], b[1]).replace(t[2], b[2])... over a table.
RECURSIVE replace_all(_, _, _)
replace_all(word, table, base) ==
  IF table = << >> THEN word
  ELSE replace_all(replace(word, Head(table), Head(base)), Tail(table), Tail(base))

IsAZ(c) == c \in Range(LowerAlpha)

\* re.sub(r'[^a-z]', '', word)
sub_non_az(word) == SelectSeq(word, IsAZ)

normalize_word_nofold(word) == strip(lower(word))

\* merge_dictionaries.normalize_word: lower, strip, fold the small accented
\* letters.  Nothing else is removed.
normalize_word(word) ==
  replace_all(strip(lower(word)), AccentLower, AccentBase)

ngram_normalize_word_keepall(word) ==
  replace_all(replace_all(strip(lower(word)), AccentLower, AccentBase),
              AccentUpper, AccentBase)

\* extract_ngrams.normalize_word: lower, strip, fold the small accented
\* letters, fold the capital ones (none is left after lower), keep a-z only.
ngram_normalize_word(word) ==
  sub_non_az(replace_all(replace_all(strip(lower(word)), AccentLower, AccentBase),
                         AccentUpper, AccentBase))

\* ------------------------------------------------------ n-gram extraction
\* \w of a str pattern: letters (accented ones too), digits and underscore.
IsWordChar(c) ==
  \/ c \in Range(LowerAlpha) \/ c \in Range(UpperAlpha)
  \/ c \in Range(AccentLower) \/ c \in Range(AccentUpper)
  \/ c \in Range(OtherLower) \/ c \in Range(OtherUpper)
  \/ c \in Digits \/ c = "_"

\* re.findall(r'\b\w+\b', text): the maximal runs of word characters.
RECURSIVE findall_words(_, _, _)
findall_words(text, i, run) ==
  IF i > Len(text) THEN (IF run = << >> THEN << >> ELSE << run >>)
  ELSE IF IsWordChar(text[i]) THEN findall_words(text, i + 1, Append(run, text[i]))
  ELSE (IF run = << >> THEN << >> ELSE << run >>) \o findall_words(text, i + 1, << >>)

LongerThanOne(w) == Len(w) > 1

\* [normalize_word(w) for w in words if w]
RECURSIVE normalize_each(_)
normalize_each(words) ==
  IF words = << >> THEN << >>
  ELSE (IF Head(words) # << >> THEN << ngram_normalize_word(Head(words)) >> ELSE << >>)
       \o normalize_each(Tail(words))

extract_words(text) ==
  SelectSeq(normalize_each(findall_words(text, 1, << >>)), LongerThanOne)

\* A dict is a function; the empty dict has the empty domain.
EmptyMap == [x \in {} |-> 0]

\* map[key] = value
Put(map, key, value) == (key :> value) @@ map

\* defaultdict access: the value of a missing key is the default.
Get(map, key, default) == IF key \in DOMAIN map THEN map[key] ELSE default

IncrementOnce(counter, key) == Put(counter, key, 1)

\* counter[key] += 1
Increment(counter, key) == Put(counter, key, Get(counter, key, 0) + 1)

\* bigrams[word1][word2] += 1
AddBigram(table, word1, word2) ==
  Put(table, word1, Increment(Get(table, word1, EmptyMap), word2))

\* trigrams[word1][word2][word3] += 1
AddTrigram(table, word1, word2, word3) ==
  Put(table, word1, AddBigram(Get(table, word1, EmptyMap), word2, word3))

RECURSIVE CountBigramsShort(_, _, _)
CountBigramsShort(words, i, table) ==
  IF i > Len(words) - 2 THEN table
  ELSE CountBigramsShort(words, i + 1,
         IF words[i] # << >> /\ words[i + 1] # << >>
         THEN AddBigram(table, words[i], words[i + 1]) ELSE table)

\* for i in range(len(words) - 1): the pair (words[i], words[i + 1]).
RECURSIVE CountBigrams(_, _, _)
CountBigrams(words, i, table) ==
  IF i > Len(words) - 1 THEN table
  ELSE CountBigrams(words, i + 1,
         IF words[i] # << >> /\ words[i + 1] # << >>
         THEN AddBigram(table, words[i], words[i + 1]) ELSE table)

\* for i in range(len(words) - 2): the triple (words[i], words[i+1], words[i+2]).
RECURSIVE CountTrigrams(_, _, _)
CountTrigrams(words, i, table) ==
  IF i > Len(words) - 2 THEN table
  ELSE CountTrigrams(words, i + 1,
         IF words[i] # << >> /\ words[i + 1] # << >> /\ words[i + 2] # << >>
         THEN AddTrigram(table, words[i], words[i + 1], words[i + 2]) ELSE table)

\* {word: freq for word, freq in counts.items() if freq >= min_freq}
FilterCounts(counts, minf) ==
  [x \in {y \in DOMAIN counts : counts[y] >= minf} |-> counts[x]]

FilterBigramsKeepEmpty(table, minf) ==
  [x \in DOMAIN table |-> FilterCounts(table[x], minf)]

\* The filter of a bigram table: the inner dicts filtered, the empty ones left out.
FilterBigrams(table, minf) ==
  [x \in {y \in DOMAIN table : FilterCounts(table[y], minf) # EmptyMap}
     |-> FilterCounts(table[x], minf)]

\* The filter of a trigram table, two levels of the same.
FilterTrigrams(table, minf) ==
  [x \in {y \in DOMAIN table : FilterBigrams(table[y], minf) # EmptyMap}
     |-> FilterBigrams(table[x], minf)]

\* The bigram table extract_ngrams returns for a file of the given lines.
RECURSIVE AccumulateBigrams(_, _, _)
AccumulateBigrams(text_lines, i, table) ==
  IF i > Len(text_lines) THEN table
  ELSE AccumulateBigrams(text_lines, i + 1,
                         CountBigrams(extract_words(text_lines[i]), 1, table))

ExtractedBigrams(text_lines, minf) ==
  LET table == AccumulateBigrams(text_lines, 1, EmptyMap)
  IN  IF minf > 1 THEN FilterBigrams(table, minf) ELSE table

\* ------------------------------------------------------- float arithmetic
(***************************************************************************)
(* Python floats are IEEE 754 doubles: every operation returns the exact   *)
(* result rounded to 53 significant bits, ties to even.  A non-negative    *)
(* double is held here as a fixed-point number, an integer count of        *)
(* 2^-60, written as five limbs of 15 bits, least significant first (the   *)
(* fifth limb is the integer part).  Every double the merge produces is a  *)
(* multiple of 2^-60 below 2^15, so the representation is exact.           *)
(***************************************************************************)
Limb == 2^15

\* Four limbs of fraction (60 bits) and one of integer part.
NumLimbs == 4 + 1

\* 52 stored bits and the implicit leading one.
MantissaBits == 52 + 1

BigZero == [i \in 1..NumLimbs |-> 0]

\* float(n) for a small non-negative integer n.
BigOfInt(n) == [i \in 1..NumLimbs |-> IF i = NumLimbs THEN n ELSE 0]

RECURSIVE BigCarry(_, _, _)
BigCarry(a, i, carry) ==
  IF i > NumLimbs THEN << >>
  ELSE << (a[i] + carry) % Limb >> \o BigCarry(a, i + 1, (a[i] + carry) \div Limb)

BigAdd(a, b) == BigCarry([i \in 1..NumLimbs |-> a[i] + b[i]], 1, 0)

BigMulSmall(a, m) == BigCarry([i \in 1..NumLimbs |-> a[i] * m], 1, 0)

\* Long division by a small integer d >= 1, from the top limb down:
\* the quotient and the remainder.
RECURSIVE BigDivFrom(_, _, _, _)
BigDivFrom(a, d, i, r) ==
  IF i = 0 THEN [q |-> << >>, r |-> r]
  ELSE LET cur == r * Limb + a[i]
           rest == BigDivFrom(a, d, i - 1, cur % d)
       IN  [q |-> rest.q \o << cur \div d >>, r |-> rest.r]

BigDivSmall(a, d) == BigDivFrom(a, d, NumLimbs, 0)

RECURSIVE BitsOf(_)
BitsOf(n) == IF n = 0 THEN 0 ELSE 1 + BitsOf(n \div 2)

RECURSIVE TopLimb(_, _)
TopLimb(a, i) == IF i = 0 \/ a[i] # 0 THEN i ELSE TopLimb(a, i - 1)

BitLength(a) ==
  LET t == TopLimb(a, NumLimbs)
  IN  IF t = 0 THEN 0 ELSE 15 * (t - 1) + BitsOf(a[t])

\* Round to 53 significant bits, ties to even.  sticky says that the exact
\* value lies strictly above a (bits below 2^-60 were cut off by a division).
Round53(a, sticky) ==
  LET s == BitLength(a) - MantissaBits
      low == a[1] + a[2] * Limb
      rem == low % (2^s)
      half == 2^(s - 1)
      kept == low - rem
      down == [a EXCEPT ![1] = kept % Limb, ![2] = kept \div Limb]
      odd == (low \div (2^s)) % 2 = 1
      up == rem > half \/ (rem = half /\ (sticky \/ odd))
      ulp == [i \in 1..NumLimbs |->
                IF i = 1 THEN (2^s) % Limb ELSE IF i = 2 THEN (2^s) \div Limb ELSE 0]
  IN  IF s <= 0 THEN a
      ELSE IF up THEN BigAdd(down, ulp) ELSE down

\* The double nearest to num/den (a decimal literal such as 0.6 = 6/10, or a
\* float division by a small integer).
FloatQuot(a, den) ==
  LET d == BigDivSmall(a, den) IN Round53(d.q, d.r # 0)

FloatLit(num, den) == FloatQuot(BigOfInt(num), den)

FloatMulInt(n, x) == Round53(BigMulSmall(x, n), FALSE)

FloatAdd(x, y) == Round53(BigAdd(x, y), FALSE)

\* int(x) for x >= 0: truncation.
FloatToInt(x) == x[NumLimbs]

\* ------------------------------------------------------ merge strategies
\* Bounds on the input files: entries in the two files of a run together,
\* entries of a file that is given twice, and the largest --min-freq.
MaxEntries == 3

MaxStoreLen == 2

MaxMinFreq == 2

\* No group has more entries than the input files hold together.
MaxGroup == IF MaxEntries > 2 * MaxStoreLen THEN MaxEntries ELSE 2 * MaxStoreLen

\* An entry of a dictionary file is a record [w |-> word, f |-> frequency];
\* a record read from a file may lack either field.

\* e.get('f', 0) and e.get('w', '')
get_f(e) == IF "f" \in DOMAIN e THEN e.f ELSE 0

get_w(e) == IF "w" \in DOMAIN e THEN e.w ELSE << >>

RECURSIVE SumF(_)
SumF(entries) ==
  IF entries = << >> THEN 0 ELSE get_f(Head(entries)) + SumF(Tail(entries))

RECURSIVE MaxFromLast(_, _, _)
MaxFromLast(entries, i, best) ==
  IF i > Len(entries) THEN best
  ELSE MaxFromLast(entries, i + 1,
                   IF get_f(entries[i]) >= get_f(best) THEN entries[i] ELSE best)

\* max(entries, key=f): a later entry replaces the best so far only when its
\* frequency is strictly greater, so the first of several maxima is returned.
RECURSIVE MaxFrom(_, _, _)
MaxFrom(entries, i, best) ==
  IF i > Len(entries) THEN best
  ELSE MaxFrom(entries, i + 1,
               IF get_f(entries[i]) > get_f(best) THEN entries[i] ELSE best)

merge_max_frequency_last(entries) ==
  LET max_entry == MaxFromLast(entries, 2, entries[1])
  IN  [w |-> max_entry.w, f |-> max_entry.f]

merge_max_frequency(entries) ==
  LET max_entry == MaxFrom(entries, 2, entries[1])
  IN  [w |-> max_entry.w, f |-> max_entry.f]

merge_sum_frequency_first(entries) ==
  [w |-> entries[1].w, f |-> entries[1].f]

merge_sum_frequency(entries) ==
  [w |-> entries[1].w, f |-> SumF(entries)]

merge_avg_frequency_short(entries) ==
  [w |-> entries[1].w, f |-> SumF(entries) \div (Len(entries) - 1)]

merge_avg_frequency(entries) ==
  [w |-> entries[1].w, f |-> SumF(entries) \div Len(entries)]

\* weights = [0.6] + [0.4 / (n - 1)] * (n - 1), or [1.0] for one entry.
default_weights(n) ==
  IF n > 1
  THEN << FloatLit(6, 10) >> \o [i \in 1..(n - 1) |-> FloatQuot(FloatLit(4, 10), n - 1)]
  ELSE << BigOfInt(1) >>

\* The default weights of every group size that can occur, computed once.
Weights == [n \in 1..MaxGroup |-> default_weights(n)]

\* sum(f * w for ...): the float products added from left to right, each
\* product and each partial sum rounded to a double.
RECURSIVE weighted_sum(_, _, _, _)
weighted_sum(entries, weights, i, acc) ==
  IF i > Len(entries) THEN acc
  ELSE weighted_sum(entries, weights, i + 1,
                    FloatAdd(acc, FloatMulInt(get_f(entries[i]), weights[i])))

\* int(weighted_sum) of a group, from the frequencies of its entries.
weighted_int(entries) ==
  FloatToInt(weighted_sum(entries, Weights[Len(entries)], 1, BigZero))

RECURSIVE FreqsOf(_)
FreqsOf(entries) ==
  IF entries = << >> THEN << >> ELSE << get_f(Head(entries)) >> \o FreqsOf(Tail(entries))

\* weighted_int of the groups of the sample frequencies (0 is what a record
\* without frequency counts as), computed once.
WeightedInts ==
  [fs \in UNION {[1..n -> {0, 1, 6}] : n \in 2..MaxGroup} |->
     weighted_int([i \in 1..Len(fs) |-> [f |-> fs[i]]])]

merge_weighted_frequency(entries) ==
  LET fs == FreqsOf(entries)
  IN  [w |-> entries[1].w,
       f |-> IF fs \in DOMAIN WeightedInts THEN WeightedInts[fs]
             ELSE weighted_int(entries)]

Strategies == {"max", "sum", "avg", "weighted"}

\* merge_strategies.get(strategy, merge_max_frequency)
merge_func(strat, entries) ==
  CASE strat = "max" -> merge_max_frequency(entries)
    [] strat = "sum" -> merge_sum_frequency(entries)
    [] strat = "avg" -> merge_avg_frequency(entries)
    [] strat = "weighted" -> merge_weighted_frequency(entries)
    [] OTHER -> merge_max_frequency(entries)

\* --------------------------------------------------------- merge pipeline
\* Sample words: two casings of one word, an accented word, a word of
\* whitespace only, and the empty word.
Hello == << "H", "e", "l", "l", "o" >>

hello == << "h", "e", "l", "l", "o" >>

Blank == << " " >>

Empty == << >>

Cafe == << "C", "a", "f", "e_acute" >>

MergeWords == {Hello, hello, Cafe, Blank, Empty}

Freqs == {1, 6}

\* normalize_word over the sample words, computed once.
NormalizedWord == [x \in MergeWords |-> normalize_word(x)]


\* all_entries.extend(entries) for every input file in turn.
RECURSIVE Concat(_)
Concat(lists) ==
  IF lists = << >> THEN << >> ELSE Head(lists) \o Concat(Tail(lists))

\* word_groups is a dict from normalized word to the list of its entries; a
\* dict keeps its keys in the order of their first insertion, so it is
\* modelled as a sequence of [k |-> key, v |-> entries].
GroupKeys(groups) == {groups[i].k : i \in 1..Len(groups)}

GroupIndex(groups, key) == CHOOSE i \in 1..Len(groups) : groups[i].k = key

AppendToGroup(groups, key, entry) ==
  IF key \in GroupKeys(groups)
  THEN [groups EXCEPT ![GroupIndex(groups, key)].v = Append(@, entry)]
  ELSE Append(groups, [k |-> key, v |-> << entry >>])

RECURSIVE GroupEntriesByWord(_, _, _)
GroupEntriesByWord(entries, i, groups) ==
  IF i > Len(entries) THEN groups
  ELSE GroupEntriesByWord(entries, i + 1,
         IF get_w(entries[i]) = << >> THEN groups
         ELSE AppendToGroup(groups, entries[i].w, entries[i]))

\* for entry in all_entries: skip an entry whose word is empty (not word),
\* else append it to the group of its normalized word.
RECURSIVE GroupEntries(_, _, _)
GroupEntries(entries, i, groups) ==
  IF i > Len(entries) THEN groups
  ELSE GroupEntries(entries, i + 1,
         IF get_w(entries[i]) = << >> THEN groups
         ELSE AppendToGroup(groups, NormalizedWord[entries[i].w], entries[i]))

ResolveGroupFirst(strat, group) == group.v[1]

\* for normalized, entries in word_groups.items(): a group of several entries
\* is merged by the strategy, a group of one passes through; the result is
\* kept when its frequency reaches min_frequency.
ResolveGroup(strat, group) ==
  IF Len(group.v) > 1 THEN merge_func(strat, group.v) ELSE group.v[1]

RECURSIVE MergeGroupsNotEqual(_, _, _, _)
MergeGroupsNotEqual(groups, strat, minf, i) ==
  IF i > Len(groups) THEN << >>
  ELSE LET merged == ResolveGroup(strat, groups[i])
       IN  (IF get_f(merged) # minf THEN << merged >> ELSE << >>)
           \o MergeGroupsNotEqual(groups, strat, minf, i + 1)

RECURSIVE MergeGroups(_, _, _, _)
MergeGroups(groups, strat, minf, i) ==
  IF i > Len(groups) THEN << >>
  ELSE LET merged == ResolveGroup(strat, groups[i])
       IN  (IF get_f(merged) >= minf THEN << merged >> ELSE << >>)
           \o MergeGroups(groups, strat, minf, i + 1)

RECURSIVE InsertDescTiesFirst(_, _)
InsertDescTiesFirst(sorted, e) ==
  IF sorted = << >> THEN << e >>
  ELSE IF get_f(Head(sorted)) > get_f(e)
       THEN << Head(sorted) >> \o InsertDescTiesFirst(Tail(sorted), e)
  ELSE << e >> \o sorted

\* list.sort(key=f, reverse=True): stable, equal frequencies keep their order.
RECURSIVE InsertDesc(_, _)
InsertDesc(sorted, e) ==
  IF sorted = << >> THEN << e >>
  ELSE IF get_f(Head(sorted)) >= get_f(e)
       THEN << Head(sorted) >> \o InsertDesc(Tail(sorted), e)
  ELSE << e >> \o sorted

RECURSIVE SortDesc(_, _, _)
SortDesc(entries, i, sorted) ==
  IF i > Len(entries) THEN sorted
  ELSE SortDesc(entries, i + 1, InsertDesc(sorted, entries[i]))

\* The list merge_dictionaries writes for non-empty input.
MergedOutput(inputs, strat, minf) ==
  SortDesc(MergeGroups(GroupEntries(Concat(inputs), 1, << >>), strat, minf, 1), 1, << >>)

\* ------------------------------------------------------------ merge run
\* A file is the sequence of the documents written to it: a file that was
\* never written is empty, a written file holds one document.
NoFile == << >>

NoResult == "NoResult"

\* The process has not exited.
NoExit == 0 - 1

\* A line printed for the caller: what is reported, and about which input
\* file (0: about the run).
Msg(msg, file) == [msg |-> msg, file |-> file]

\* An input file holds a list document ("list"), a document that is not a
\* list ("notlist"), no JSON document at all ("invalid"), or it does not
\* exist ("missing").

load_dictionary_any(file, doc) == doc

\* load_dictionary(json_file): the list, or [] with a warning or an error.
load_dictionary(file, doc) == IF file = "list" THEN doc ELSE << >>

load_messages(file, i) ==
  CASE file = "list" -> {}
    [] file = "notlist" -> {Msg("not_list", i)}
    [] OTHER -> {Msg("load_error", i)}

\* for input_file in input_files: all_entries.extend(load_dictionary(input_file))
LoadAll(fs, docs) ==
  Concat([i \in 1..Len(docs) |-> load_dictionary(fs[i], docs[i])])

LoadReports(fs) == UNION {load_messages(fs[i], i) : i \in 1..Len(fs)}

\* merge_max_frequency reads max_entry['f']: a KeyError when the first entry
\* of highest e.get('f', 0) has no frequency field.  Only groups of several
\* entries are handed to the strategy.
RaisesKeyError(strat, group) ==
  /\ Len(group.v) > 1
  /\ strat \notin {"sum", "avg", "weighted"}
  /\ "f" \notin DOMAIN MaxFrom(group.v, 2, group.v[1])

Raising(groups, strat) == {i \in 1..Len(groups) : RaisesKeyError(strat, groups[i])}

\* for i, entry in enumerate(merged_entries[:10], 1): print entry['f']
TopShown == 10

PrintFails(merged) ==
  \E i \in 1..Len(merged) : i <= TopShown /\ "f" \notin DOMAIN merged[i]

\* The entries the input files are drawn from: both casings of one word at
\* both frequencies, and one entry each of a second word, of a blank word and
\* of an empty word.
Entries ==
  [w : {Hello, hello}, f : Freqs]
    \cup {[w |-> Cafe, f |-> 6], [w |-> Blank, f |-> 6], [w |-> Empty, f |-> 6]}

RECURSIVE SeqsUpTo(_, _)
SeqsUpTo(S, n) ==
  IF n = 0 THEN {<< >>}
  ELSE LET shorter == SeqsUpTo(S, n - 1)
       IN  shorter \cup {Append(q, x) : q \in {r \in shorter : Len(r) = n - 1}, x \in S}

\* The ways to cut a list in two.
Splits(q) == {<< SubSeq(q, 1, k), SubSeq(q, k + 1, Len(q)) >> : k \in 0..Len(q)}

\* Two input files holding at most MaxEntries entries together.
StorePairs == UNION {Splits(q) : q \in SeqsUpTo(Entries, MaxEntries)}

\* The same file given twice.
SelfPairs == {<< d, d >> : d \in SeqsUpTo(Entries, MaxStoreLen)}

MergeIdle ==
  /\ files = << >>
  /\ stores = << >>
  /\ strategy = "max"
  /\ min_frequency = 1
  /\ all_entries = << >>
  /\ word_groups = << >>
  /\ merged_entries = << >>
  /\ output_file = NoFile
  /\ result = NoResult
  /\ reported = {}

ExtractIdle ==
  /\ input_file = "readable"
  /\ lines = << >>
  /\ min_freq = 1
  /\ line_count = 0
  /\ bigrams = EmptyMap
  /\ trigrams = EmptyMap
  /\ output_bigrams = NoFile
  /\ output_trigrams = NoFile

NormalizeIdle ==
  /\ token = << >>
  /\ merge_key = << >>
  /\ ngram_key = << >>

ConvertIdle ==
  /\ source_lines = << >>
  /\ limit = 1
  /\ json_entries = << >>
  /\ json_file = NoFile

BuildIdle ==
  /\ language = "en"
  /\ base_dict = NoFile
  /\ corpora_dir = << >>
  /\ build_log = << >>

\* Nothing has run yet.
NotRun ==
  /\ all_entries = << >>
  /\ word_groups = << >>
  /\ merged_entries = << >>
  /\ output_file = NoFile
  /\ result = NoResult
  /\ reported = {}
  /\ exit_code = NoExit
  /\ ExtractIdle
  /\ NormalizeIdle
  /\ ConvertIdle
  /\ BuildIdle

\* merge_dictionaries is called on two files that hold lists of entries.
MergeStart(pairs) ==
  /\ files = << "list", "list" >>
  /\ stores \in pairs
  /\ strategy \in Strategies
  /\ min_frequency \in 1..MaxMinFreq
  /\ pc = "start"
  /\ NotRun

Init == MergeStart(StorePairs)

InitSelf == MergeStart(SelfPairs)

\* merge_dictionaries(input_files, output_file, strategy, min_frequency) when
\* no entry was loaded: nothing is written and False is returned.
MergeNothing ==
  /\ pc = "start"
  /\ LoadAll(files, stores) = << >>
  /\ reported' = reported \cup LoadReports(files) \cup {Msg("no_entries", 0)}
  /\ result' = FALSE
  /\ pc' = "done"
  /\ UNCHANGED << files, stores, strategy, min_frequency, all_entries, word_groups,
                  merged_entries, output_file, exit_code >>
  /\ UNCHANGED << extractVars, normalizeVars, convertVars >>
  /\ UNCHANGED buildVars

\* merge_dictionaries on a non-empty input: group, merge, filter, sort, write,
\* and print the first entries; a KeyError of that print is caught like a
\* failure to save.
MergeDictionaries ==
  /\ pc = "start"
  /\ LoadAll(files, stores) # << >>
  /\ all_entries' = LoadAll(files, stores)
  /\ word_groups' = GroupEntries(all_entries', 1, << >>)
  /\ Raising(word_groups', strategy) = {}
  /\ merged_entries' =
       SortDesc(MergeGroups(word_groups', strategy, min_frequency, 1), 1, << >>)
  /\ output_file' = << merged_entries' >>
  /\ result' = ~PrintFails(merged_entries')
  /\ reported' = reported \cup LoadReports(files)
                   \cup (IF PrintFails(merged_entries') THEN {Msg("save_error", 0)} ELSE {})
  /\ pc' = "done"
  /\ UNCHANGED << files, stores, strategy, min_frequency, exit_code >>
  /\ UNCHANGED << extractVars, normalizeVars, convertVars >>
  /\ UNCHANGED buildVars

\* merge_dictionaries when a group raises a KeyError: the exception leaves
\* the function, nothing is written and nothing is returned.
MergeRaises ==
  /\ pc = "start"
  /\ LoadAll(files, stores) # << >>
  /\ all_entries' = LoadAll(files, stores)
  /\ word_groups' = GroupEntries(all_entries', 1, << >>)
  /\ Raising(word_groups', strategy) # {}
  /\ LET first == CHOOSE i \in Raising(word_groups', strategy) :
                    \A j \in Raising(word_groups', strategy) : i <= j
     IN  merged_entries' =
           MergeGroups(SubSeq(word_groups', 1, first - 1), strategy, min_frequency, 1)
  /\ reported' = reported \cup LoadReports(files)
  /\ pc' = "raised"
  /\ UNCHANGED << files, stores, strategy, min_frequency, output_file, result,
                  exit_code >>
  /\ UNCHANGED << extractVars, normalizeVars, convertVars >>
  /\ UNCHANGED buildVars

Next == MergeNothing \/ MergeDictionaries

Spec == Init /\ [][Next]_vars

SpecSelf == InitSelf /\ [][Next]_vars

\* ---------------------------------------------- merge run, any input
\* Records as a file may hold them: well-formed ones, one without a frequency
\* field, one without a word field and one with an empty word.
RawEntries ==
  { [w |-> Hello, f |-> 6], [w |-> hello, f |-> 1], [w |-> hello],
    [f |-> 6], [w |-> Empty, f |-> 6] }

MaxRawEntries == 2

\* A strategy name that merge_strategies does not hold.
UnknownStrategy == "median"

\* A file that cannot be loaded, and the records its text holds: a document
\* that is an object around one entry, a text that is no JSON document, and
\* no file.
Unloadable ==
  { << "notlist", << [w |-> Hello, f |-> 6] >> >>,
    << "invalid", << >> >>,
    << "missing", << >> >> }

\* Two input files: two lists holding at most MaxRawEntries records together,
\* or one or both of them not loadable.
CallInputs ==
  {<< << "list", "list" >>, p >> :
      p \in UNION {Splits(q) : q \in SeqsUpTo(RawEntries, MaxRawEntries)}}
    \cup {<< << u[1], "list" >>, << u[2], d >> >> :
            u \in Unloadable, d \in SeqsUpTo(RawEntries, MaxRawEntries)}
    \cup {<< << "list", u[1] >>, << d, u[2] >> >> :
            u \in Unloadable, d \in SeqsUpTo(RawEntries, MaxRawEntries)}
    \cup {<< << u1[1], u2[1] >>, << u1[2], u2[2] >> >> : u1 \in Unloadable, u2 \in Unloadable}

\* merge_dictionaries is called by a program that imports it: any strategy
\* string and any integer threshold can be passed.
InitCall ==
  /\ \E input \in CallInputs : files = input[1] /\ stores = input[2]
  /\ strategy \in Strategies \cup {UnknownStrategy}
  /\ min_frequency \in 0..MaxMinFreq
  /\ pc = "start"
  /\ NotRun

NextCall == MergeNothing \/ MergeDictionaries \/ MergeRaises

SpecCall == InitCall /\ [][NextCall]_vars

\* ------------------------------------------------- merge run, from main
\* The documents of the three input files of a command-line run.
FileDocs ==
  { << >>, << [w |-> Hello, f |-> 6] >>,
    << [w |-> hello, f |-> 1], [w |-> Cafe, f |-> 6] >>, << [w |-> hello] >> }

FileChoices == {<< "list", d >> : d \in FileDocs} \cup Unloadable

\* python merge_dictionaries.py f1 f2 f3 -o out -s strategy -m min_freq
InitMain ==
  /\ \E c1 \in FileChoices, c2 \in FileChoices, c3 \in FileChoices :
       /\ files = << c1[1], c2[1], c3[1] >>
       /\ stores = << c1[2], c2[2], c3[2] >>
  /\ strategy \in Strategies \cup {UnknownStrategy}
  /\ min_frequency \in 0..MaxMinFreq
  /\ pc = "main"
  /\ NotRun

\* parser.parse_args(): a --strategy outside the choices ends the process
\* with a usage error, exit status 2.
MainUsageError ==
  /\ pc = "main"
  /\ strategy \notin Strategies
  /\ reported' = reported \cup {Msg("usage", 0)}
  /\ exit_code' = 2
  /\ pc' = "exit"
  /\ UNCHANGED << files, stores, strategy, min_frequency, all_entries, word_groups,
                  merged_entries, output_file, result >>
  /\ UNCHANGED << extractVars, normalizeVars, convertVars >>
  /\ UNCHANGED buildVars

\* for input_file in args.inputs: the first file that does not exist ends
\* the run with status 1.
MainInputNotFound ==
  /\ pc = "main"
  /\ strategy \in Strategies
  /\ \E i \in 1..Len(files) :
       /\ files[i] = "missing"
       /\ \A j \in 1..(i - 1) : files[j] # "missing"
       /\ reported' = reported \cup {Msg("not_found", i)}
  /\ exit_code' = 1
  /\ pc' = "exit"
  /\ UNCHANGED << files, stores, strategy, min_frequency, all_entries, word_groups,
                  merged_entries, output_file, result >>
  /\ UNCHANGED << extractVars, normalizeVars, convertVars >>
  /\ UNCHANGED buildVars

\* Every input file exists: merge_dictionaries is called.
MainCallsMerge ==
  /\ pc = "main"
  /\ strategy \in Strategies
  /\ \A i \in 1..Len(files) : files[i] # "missing"
  /\ pc' = "start"
  /\ UNCHANGED << mergeVars, extractVars, normalizeVars, convertVars, exit_code >>
  /\ UNCHANGED buildVars

\* return 0 if success else 1
MainReturns ==
  /\ pc = "done"
  /\ exit_code' = IF result THEN 0 ELSE 1
  /\ pc' = "exit"
  /\ UNCHANGED << mergeVars, extractVars, normalizeVars, convertVars >>
  /\ UNCHANGED buildVars

\* An exception that leaves merge_dictionaries leaves main too: the
\* interpreter prints the traceback and exits with status 1.
MainUncaught ==
  /\ pc = "raised"
  /\ exit_code' = 1
  /\ pc' = "exit"
  /\ UNCHANGED << mergeVars, extractVars, normalizeVars, convertVars >>
  /\ UNCHANGED buildVars

NextMain ==
  \/ MainUsageError
  \/ MainInputNotFound
  \/ MainCallsMerge
  \/ MergeNothing
  \/ MergeDictionaries
  \/ MergeRaises
  \/ MainReturns
  \/ MainUncaught

SpecMain == InitMain /\ [][NextMain]_vars

\* ------------------------------------------------------- extraction run
SP == << " " >>

NL == << "\n" >>

the == << "t", "h", "e" >>

cat == << "c", "a", "t" >>

sat == << "s", "a", "t" >>

ran == << "r", "a", "n" >>

cafe == << "c", "a", "f", "e" >>

\* "the cat sat the cat ran"
ScenarioLine ==
  the \o SP \o cat \o SP \o sat \o SP \o the \o SP \o cat \o SP \o ran \o NL

\* "The cat", "sat the", "cat", an empty line, and
\* "Cafe: a cat-sat, 1x it's" with an acute accent on the e of Cafe.
TextLines ==
  { ScenarioLine,
    << "T", "h", "e" >> \o SP \o cat \o NL,
    sat \o SP \o the \o NL,
    cat \o NL,
    NL,
    Cafe \o << ":" >> \o SP \o << "a" >> \o SP \o cat \o << "-" >> \o sat
      \o << ",", " ", "1", "x", " ", "i", "t", "'", "s" >> \o NL }

MaxLines == 2

\* python extract_ngrams.py input_file output_bigrams output_trigrams
\* --min-freq n: the input file can be read to its end ("readable"), raises
\* an error at the open or at some line ("unreadable"), or does not exist
\* ("missing").
InitExtract ==
  /\ \/ input_file \in {"readable", "unreadable"} /\ lines \in SeqsUpTo(TextLines, MaxLines)
     \/ input_file = "missing" /\ lines = << >>
  /\ min_freq \in 0..MaxMinFreq
  /\ line_count = 0
  /\ bigrams = EmptyMap
  /\ trigrams = EmptyMap
  /\ output_bigrams = NoFile
  /\ output_trigrams = NoFile
  /\ pc = "reading"
  /\ exit_code = NoExit
  /\ MergeIdle
  /\ NormalizeIdle
  /\ ConvertIdle
  /\ BuildIdle

\* except FileNotFoundError: sys.exit(1)
FileNotFound ==
  /\ pc = "reading"
  /\ input_file = "missing"
  /\ reported' = reported \cup {Msg("not_found", 1)}
  /\ exit_code' = 1
  /\ pc' = "exit"
  /\ UNCHANGED << mergeData, extractVars, normalizeVars, convertVars >>
  /\ UNCHANGED buildVars

ReadErrorSaves ==
  /\ pc = "reading"
  /\ input_file = "unreadable"
  /\ reported' = reported \cup {Msg("read_error", 1)}
  /\ output_bigrams' = << bigrams >>
  /\ output_trigrams' = << trigrams >>
  /\ exit_code' = 1
  /\ pc' = "exit"
  /\ UNCHANGED << input_file, lines, min_freq, line_count, bigrams, trigrams >>
  /\ UNCHANGED << mergeData, normalizeVars, convertVars >>
  /\ UNCHANGED buildVars

\* except Exception: sys.exit(1), at the open or while a line is read.
ReadError ==
  /\ pc = "reading"
  /\ input_file = "unreadable"
  /\ reported' = reported \cup {Msg("read_error", 1)}
  /\ exit_code' = 1
  /\ pc' = "exit"
  /\ UNCHANGED << mergeData, extractVars, normalizeVars, convertVars >>
  /\ UNCHANGED buildVars

\* One turn of "for line in f": the n-grams of the next line are counted.
ReadLine ==
  /\ pc = "reading"
  /\ input_file # "missing"
  /\ line_count < Len(lines)
  /\ line_count' = line_count + 1
  /\ LET words == extract_words(lines[line_count'])
     IN  /\ bigrams' = CountBigrams(words, 1, bigrams)
         /\ trigrams' = CountTrigrams(words, 1, trigrams)
  /\ UNCHANGED << input_file, lines, min_freq, output_bigrams, output_trigrams, pc >>
  /\ UNCHANGED << mergeVars, normalizeVars, convertVars, exit_code >>
  /\ UNCHANGED buildVars

\* The end of the file: the tables are filtered when min_freq > 1, and returned.
FilterAndReturn ==
  /\ pc = "reading"
  /\ input_file = "readable"
  /\ line_count = Len(lines)
  /\ bigrams' = IF min_freq > 1 THEN FilterBigrams(bigrams, min_freq) ELSE bigrams
  /\ trigrams' = IF min_freq > 1 THEN FilterTrigrams(trigrams, min_freq) ELSE trigrams
  /\ pc' = "done"
  /\ UNCHANGED << input_file, lines, min_freq, line_count, output_bigrams,
                  output_trigrams >>
  /\ UNCHANGED << mergeVars, normalizeVars, convertVars, exit_code >>
  /\ UNCHANGED buildVars

\* save_json(bigrams, args.output_bigrams)
SaveBigrams ==
  /\ pc = "done"
  /\ output_bigrams' = << bigrams >>
  /\ pc' = "saved_bigrams"
  /\ UNCHANGED << input_file, lines, min_freq, line_count, bigrams, trigrams,
                  output_trigrams >>
  /\ UNCHANGED << mergeVars, normalizeVars, convertVars, exit_code >>
  /\ UNCHANGED buildVars

\* save_json(trigrams, args.output_trigrams), and the end of main.
SaveTrigrams ==
  /\ pc = "saved_bigrams"
  /\ output_trigrams' = << trigrams >>
  /\ exit_code' = 0
  /\ pc' = "exit"
  /\ UNCHANGED << input_file, lines, min_freq, line_count, bigrams, trigrams,
                  output_bigrams >>
  /\ UNCHANGED << mergeVars, normalizeVars, convertVars >>
  /\ UNCHANGED buildVars

NextExtract ==
  \/ FileNotFound
  \/ ReadError
  \/ ReadLine
  \/ FilterAndReturn
  \/ SaveBigrams
  \/ SaveTrigrams

SpecExtract == InitExtract /\ [][NextExtract]_vars

\* ------------------------------------------------------ normalization run
CAFE == << "C", "A", "F", "E" >>

MaxWordLen == 3

ProbeChars == {"a", "e", "E", "e_acute", "E_acute", "u_uml", "1", "'", " "}

ProbeWords == SeqsUpTo(ProbeChars, MaxWordLen) \cup {Cafe, CAFE, Hello, hello}

InitNormalize ==
  /\ token \in ProbeWords
  /\ merge_key = << >>
  /\ ngram_key = << >>
  /\ pc = "input"
  /\ exit_code = NoExit
  /\ MergeIdle
  /\ ExtractIdle
  /\ ConvertIdle
  /\ BuildIdle

\* normalize_word of merge_dictionaries.py and of extract_ngrams.py, each
\* called on the token.
NormalizeWord ==
  /\ pc = "input"
  /\ merge_key' = normalize_word(token)
  /\ ngram_key' = ngram_normalize_word(token)
  /\ pc' = "done"
  /\ UNCHANGED token
  /\ UNCHANGED << mergeVars, extractVars, convertVars, exit_code >>
  /\ UNCHANGED buildVars

NextNormalize == NormalizeWord

SpecNormalize == InitNormalize /\ [][NextNormalize]_vars

\* ------------------------------------------- frequency list conversion
\* str.split(): the maximal runs of characters that are not whitespace.
RECURSIVE split_run(_, _, _)
split_run(text, run, parts) ==
  IF text = << >> THEN (IF run = << >> THEN parts ELSE Append(parts, run))
  ELSE IF Head(text) \in Whitespace
       THEN split_run(Tail(text), << >>, IF run = << >> THEN parts ELSE Append(parts, run))
  ELSE split_run(Tail(text), Append(run, Head(text)), parts)

split(text) == split_run(text, << >>, << >>)

\* str.split(sep): the pieces between the separators, empty ones too.
RECURSIVE split_at(_, _, _, _)
split_at(text, sep, run, parts) ==
  IF text = << >> THEN Append(parts, run)
  ELSE IF Head(text) = sep THEN split_at(Tail(text), sep, << >>, Append(parts, run))
  ELSE split_at(Tail(text), sep, Append(run, Head(text)), parts)

\* ' '.join(parts)
RECURSIVE join(_)
join(parts) ==
  IF parts = << >> THEN << >>
  ELSE IF Len(parts) = 1 THEN Head(parts)
  ELSE Head(parts) \o << " " >> \o join(Tail(parts))

\* str.strip('"')
RECURSIVE strip_quotes(_)
strip_quotes(text) ==
  IF text # << >> /\ Head(text) = "\"" THEN strip_quotes(Tail(text))
  ELSE IF text # << >> /\ text[Len(text)] = "\""
       THEN strip_quotes(SubSeq(text, 1, Len(text) - 1))
  ELSE text

startswith(text, prefix) ==
  Len(text) >= Len(prefix) /\ SubSeq(text, 1, Len(prefix)) = prefix

DigitChars == << "0", "1", "2", "3", "4", "5", "6", "7", "8", "9" >>

\* int(text): whitespace around the text is dropped, one sign may lead, and
\* the rest is decimal digits, with single underscores between digits.
IntBody(text) ==
  LET t == strip(text)
  IN  IF t # << >> /\ Head(t) \in {"+", "-"} THEN Tail(t) ELSE t

IsNegative(text) == strip(text) # << >> /\ Head(strip(text)) = "-"

\* Whether int(text) returns: otherwise it raises ValueError.
int_parses(text) ==
  LET body == IntBody(text)
  IN  /\ body # << >>
      /\ Head(body) \in Digits
      /\ body[Len(body)] \in Digits
      /\ \A i \in 1..Len(body) : body[i] \in Digits \cup {"_"}
      /\ \A i \in 1..(Len(body) - 1) : ~(body[i] = "_" /\ body[i + 1] = "_")

RECURSIVE Decimal(_, _)
Decimal(body, acc) ==
  IF body = << >> THEN acc
  ELSE IF Head(body) = "_" THEN Decimal(Tail(body), acc)
  ELSE Decimal(Tail(body), 10 * acc + IndexOf(DigitChars, Head(body)) - 1)

int(text) ==
  IF IsNegative(text) THEN 0 - Decimal(IntBody(text), 0) ELSE Decimal(IntBody(text), 0)

\* One line of convert_opensubtitles_to_json: "word frequency", the word
\* being all parts but the last; the entries it adds.
opensubtitles_line(text) ==
  LET line == strip(text)
      parts == split(line)
  IN  IF line = << >> THEN << >>
      ELSE IF Len(parts) < 2 THEN << >>
      ELSE IF int_parses(parts[Len(parts)])
           THEN << [w |-> join(SubSeq(parts, 1, Len(parts) - 1)),
                    f |-> int(parts[Len(parts)])] >>
      ELSE << >>

RECURSIVE convert_opensubtitles(_, _)
convert_opensubtitles(text_lines, entries) ==
  IF text_lines = << >> THEN entries
  ELSE convert_opensubtitles(Tail(text_lines), entries \o opensubtitles_line(Head(text_lines)))

\* One line of convert_wikipedia_to_json: "word,count" or "word count".
wikipedia_line(text) ==
  LET line == strip(text)
      by_comma == split_at(line, ",", << >>, << >>)
      parts == IF Len(by_comma) < 2 THEN split(line) ELSE by_comma
  IN  IF line = << >> THEN << >>
      ELSE IF Len(parts) < 2 THEN << >>
      ELSE IF int_parses(strip_quotes(strip(parts[2])))
           THEN << [w |-> strip_quotes(strip(parts[1])),
                    f |-> int(strip_quotes(strip(parts[2])))] >>
      ELSE << >>

\* for line in f: stop once limit entries were accepted.
RECURSIVE convert_wikipedia(_, _, _)
convert_wikipedia(text_lines, max_entries, entries) ==
  IF text_lines = << >> \/ Len(entries) >= max_entries THEN entries
  ELSE convert_wikipedia(Tail(text_lines), max_entries,
                         entries \o wikipedia_line(Head(text_lines)))

\* first_line = f.readline(): a first line that starts with "word" is a
\* header and is skipped.
skip_header(text_lines) ==
  IF text_lines # << >> /\ startswith(strip(Head(text_lines)), << "w", "o", "r", "d" >>)
  THEN Tail(text_lines)
  ELSE text_lines

\* The default of the limit parameter.
DefaultLimit == 50000

\* Lines of a downloaded frequency list.
Quoted(text) == << "\"" >> \o text \o << "\"" >>

SourceLines ==
  { hello \o SP \o << "5" >> \o NL,
    hello \o SP \o << "-", "5" >> \o NL,
    hello \o SP \o << "x" >> \o NL,
    hello \o SP \o << "1", ".", "5" >> \o NL,
    hello \o SP \o << "1", "_", "0" >> \o NL,
    hello \o NL,
    NL,
    Hello \o SP \o hello \o SP \o << "7" >> \o NL,
    hello \o << ",", "5" >> \o NL,
    hello \o << ",", " ", "-", "5" >> \o NL,
    Quoted(Hello) \o << "," >> \o Quoted(<< "5" >>) \o NL,
    << "w", "o", "r", "d", ",", "c", "o", "u", "n", "t" >> \o NL }

MaxSourceLines == 2

InitConvert ==
  /\ source_lines \in SeqsUpTo(SourceLines, MaxSourceLines)
  /\ limit \in {1, DefaultLimit}
  /\ json_entries = << >>
  /\ json_file = NoFile
  /\ pc = "convert"
  /\ exit_code = NoExit
  /\ MergeIdle
  /\ ExtractIdle
  /\ NormalizeIdle
  /\ BuildIdle

\* convert_opensubtitles_to_json(txt_file, json_file)
ConvertOpensubtitles ==
  /\ pc = "convert"
  /\ json_entries' = convert_opensubtitles(source_lines, << >>)
  /\ json_file' = << json_entries' >>
  /\ pc' = "converted_opensubtitles"
  /\ UNCHANGED << source_lines, limit >>
  /\ UNCHANGED << mergeVars, extractVars, normalizeVars, exit_code >>
  /\ UNCHANGED buildVars

\* convert_wikipedia_to_json(csv_file, json_file, limit)
ConvertWikipedia ==
  /\ pc = "convert"
  /\ json_entries' = convert_wikipedia(skip_header(source_lines), limit, << >>)
  /\ json_file' = << json_entries' >>
  /\ pc' = "converted_wikipedia"
  /\ UNCHANGED << source_lines, limit >>
  /\ UNCHANGED << mergeVars, extractVars, normalizeVars, exit_code >>
  /\ UNCHANGED buildVars

NextConvert == ConvertOpensubtitles \/ ConvertWikipedia

SpecConvert == InitConvert /\ [][NextConvert]_vars

\* ------------------------------------- merge of a converted frequency list
\* Lines of a downloaded frequency list whose words are sample words of the
\* merge.
FrequencyLines ==
  { hello \o SP \o << "5" >> \o NL,
    hello \o SP \o << "-", "5" >> \o NL,
    Hello \o SP \o << "2" >> \o NL,
    Hello \o SP \o << "-", "2" >> \o NL,
    hello \o SP \o << "x" >> \o NL,
    NL }

\* A frequency list is downloaded, and
\* python merge_dictionaries.py converted.json -o out -s avg -m min_freq
\* is to run on its conversion; --min-freq takes any integer.
InitConvertMerge ==
  /\ source_lines \in SeqsUpTo(FrequencyLines, MaxSourceLines)
  /\ limit = DefaultLimit
  /\ json_entries = << >>
  /\ json_file = NoFile
  /\ files = << >>
  /\ stores = << >>
  /\ strategy = "avg"
  /\ min_frequency \in (0 - MaxMinFreq)..1
  /\ all_entries = << >>
  /\ word_groups = << >>
  /\ merged_entries = << >>
  /\ output_file = NoFile
  /\ result = NoResult
  /\ reported = {}
  /\ exit_code = NoExit
  /\ pc = "convert"
  /\ ExtractIdle
  /\ NormalizeIdle
  /\ BuildIdle

\* main() of merge_dictionaries.py on the converted file: the file exists and
\* holds the list the converter wrote; merge_dictionaries is called on it.
MainMergesConverted ==
  /\ pc \in {"converted_opensubtitles", "converted_wikipedia"}
  /\ json_file # NoFile
  /\ files' = << "list" >>
  /\ stores' = << json_file[1] >>
  /\ pc' = "start"
  /\ UNCHANGED << strategy, min_frequency, all_entries, word_groups, merged_entries,
                  output_file, result, reported, exit_code >>
  /\ UNCHANGED << extractVars, normalizeVars, convertVars >>
  /\ UNCHANGED buildVars

NextConvertMerge ==
  \/ ConvertOpensubtitles
  \/ ConvertWikipedia
  \/ MainMergesConverted
  \/ MergeNothing
  \/ MergeDictionaries

SpecConvertMerge == InitConvertMerge /\ [][NextConvertMerge]_vars

\* ------------------------------------------- build pipeline, merge step
\* A file name is a string.  A file of the corpora directory is a record
\* [name, kind, doc]: its name, what it holds ("list": a list document) and
\* the entries of that list.

\* part in text
Contains(text, part) ==
  \E i \in 1..(Len(text) - Len(part) + 1) : SubSeq(text, i, i + Len(part) - 1) = part

endswith(text, suffix) ==
  /\ Len(text) >= Len(suffix)
  /\ SubSeq(text, Len(text) - Len(suffix) + 1, Len(text)) = suffix

\* The pattern f"{language}_*.json" of glob.
GlobMatches(lang, name) ==
  /\ Len(name) >= Len(lang \o "_") + Len(".json")
  /\ SubSeq(name, 1, Len(lang \o "_")) = lang \o "_"
  /\ endswith(name, ".json")

\* list(corpora_dir.glob(f"{language}_*.json")), in listing order.
downloaded_dicts(dir, lang) ==
  LET Matches(file) == GlobMatches(lang, file.name)
  IN  SelectSeq(dir, Matches)

\* [base_dict] + [d for d in downloaded_dicts if d.name.endswith('.json')
\*                and 'bigram' not in d.name and 'trigram' not in d.name]
BaseName(lang) == lang \o "_base.json"

input_files(lang, base, dir) ==
  LET Kept(file) ==
        /\ endswith(file.name, ".json")
        /\ ~Contains(file.name, "bigram")
        /\ ~Contains(file.name, "trigram")
  IN  << [name |-> BaseName(lang), kind |-> "list", doc |-> base[1]] >>
        \o SelectSeq(downloaded_dicts(dir, lang), Kept)

\* merged_output = corpora_dir / f"{language}_merged.json"
MergedName(lang) == lang \o "_merged.json"

RECURSIVE FileNames(_)
FileNames(fs) ==
  IF fs = << >> THEN << >> ELSE << Head(fs).name >> \o FileNames(Tail(fs))

RECURSIVE FileKinds(_)
FileKinds(fs) ==
  IF fs = << >> THEN << >> ELSE << Head(fs).kind >> \o FileKinds(Tail(fs))

RECURSIVE FileDocuments(_)
FileDocuments(fs) ==
  IF fs = << >> THEN << >> ELSE << Head(fs).doc >> \o FileDocuments(Tail(fs))

\* What a file of the directory holds (NoFile: there is no such file).
FileIn(dir, name) ==
  IF \E i \in 1..Len(dir) : dir[i].name = name
  THEN << dir[CHOOSE i \in 1..Len(dir) : dir[i].name = name].doc >>
  ELSE NoFile

\* The default of --min-freq.
DefaultMinFreq == 1

\* python merge_dictionaries.py inputs --output merged --strategy weighted
\* run as a child process: what it writes to its output file (NoFile:
\* nothing, the run ended before the file was opened).
merge_command(inputs) ==
  LET loaded == LoadAll(FileKinds(inputs), FileDocuments(inputs))
      groups == GroupEntries(loaded, 1, << >>)
  IN  IF loaded = << >> \/ Raising(groups, "weighted") # {} THEN NoFile
      ELSE << SortDesc(MergeGroups(groups, "weighted", DefaultMinFreq, 1), 1, << >>) >>

\* The directory after a list document was written to a file: an existing
\* file keeps its place in the listing, a new one takes place pos.
WriteList(dir, name, doc, pos) ==
  IF \E i \in 1..Len(dir) : dir[i].name = name
  THEN [i \in 1..Len(dir) |->
          IF dir[i].name = name THEN [name |-> name, kind |-> "list", doc |-> doc]
          ELSE dir[i]]
  ELSE SubSeq(dir, 1, pos) \o << [name |-> name, kind |-> "list", doc |-> doc] >>
         \o SubSeq(dir, pos + 1, Len(dir))

\* Base dictionaries of a language.
BaseDocs ==
  { << [w |-> Hello, f |-> 1] >>,
    << [w |-> Hello, f |-> 6], [w |-> Cafe, f |-> 1] >> }

\* Files a corpora directory may hold: converted frequency lists of the
\* language and of another one, an n-gram table and a downloaded text.
DirFiles ==
  { [name |-> "en_frequencywords.json", kind |-> "list", doc |-> << [w |-> hello, f |-> 6] >>],
    [name |-> "en_frequencywords.json", kind |-> "list",
     doc |-> << [w |-> hello, f |-> 1], [w |-> Cafe, f |-> 6] >>],
    [name |-> "en_wikipedia.json", kind |-> "list", doc |-> << [w |-> hello, f |-> 1] >>],
    [name |-> "en_bigrams.json", kind |-> "notlist", doc |-> << >>],
    [name |-> "it_wikipedia.json", kind |-> "list", doc |-> << [w |-> hello, f |-> 6] >>],
    [name |-> "en_frequencywords_50k.txt", kind |-> "invalid", doc |-> << >>] }

MaxDirFiles == 2

MaxRuns == 3

\* A directory holds no two files of one name.
Directories ==
  {d \in SeqsUpTo(DirFiles, MaxDirFiles) :
     \A i, j \in 1..Len(d) : d[i].name = d[j].name => i = j}

InitBuild ==
  /\ language \in {"en", "it"}
  /\ base_dict \in {NoFile} \cup {<< d >> : d \in BaseDocs}
  /\ corpora_dir \in Directories
  /\ build_log = << >>
  /\ pc = "build"
  /\ exit_code = NoExit
  /\ MergeIdle
  /\ ExtractIdle
  /\ NormalizeIdle
  /\ ConvertIdle

LogRun(inputs, dir, ok) ==
  Append(build_log,
         [inputs |-> FileNames(inputs), merged |-> FileIn(dir, MergedName(language)),
          ok |-> ok])

\* build_dictionary(language, merge=True) when the base dictionary does not
\* exist: False is returned.
BuildNoBase ==
  /\ pc = "build"
  /\ Len(build_log) < MaxRuns
  /\ base_dict = NoFile
  /\ build_log' = LogRun(<< >>, corpora_dir, FALSE)
  /\ UNCHANGED << language, base_dict, corpora_dir, exit_code, pc >>
  /\ UNCHANGED << mergeVars, extractVars, normalizeVars, convertVars >>

\* build_dictionary(language, merge=True) when fewer than two input files
\* are found: the merge is skipped with a warning.
BuildSkipsMerge ==
  /\ pc = "build"
  /\ Len(build_log) < MaxRuns
  /\ base_dict # NoFile
  /\ Len(input_files(language, base_dict, corpora_dir)) < 2
  /\ build_log' = LogRun(input_files(language, base_dict, corpora_dir), corpora_dir, TRUE)
  /\ UNCHANGED << language, base_dict, corpora_dir, exit_code, pc >>
  /\ UNCHANGED << mergeVars, extractVars, normalizeVars, convertVars >>

\* build_dictionary(language, merge=True) with two input files or more: the
\* merge command runs on them and writes {language}_merged.json into the
\* corpora directory; True is returned whether or not the command failed.
BuildMerges ==
  /\ pc = "build"
  /\ Len(build_log) < MaxRuns
  /\ base_dict # NoFile
  /\ LET inputs == input_files(language, base_dict, corpora_dir)
         written == merge_command(inputs)
     IN  /\ Len(inputs) >= 2
         /\ IF written = NoFile THEN corpora_dir' = corpora_dir
            ELSE \E pos \in 0..Len(corpora_dir) :
                   corpora_dir' = WriteList(corpora_dir, MergedName(language), written[1], pos)
         /\ build_log' = LogRun(inputs, corpora_dir', TRUE)
  /\ UNCHANGED << language, base_dict, exit_code, pc >>
  /\ UNCHANGED << mergeVars, extractVars, normalizeVars, convertVars >>

NextBuild == BuildNoBase \/ BuildSkipsMerge \/ BuildMerges

SpecBuild == InitBuild /\ [][NextBuild]_vars

\* ------------------------------------------------------- merge properties
\* The entries of the input files in the order they are encountered: file
\* by file, and inside a file from first to last.
Encountered == Concat(stores)

HasWord(e) == e.w # << >>

\* The members of the merge group of a canonical key, in encounter order.
\* A record with an empty word is a malformed record and member of no group.
Members(key) ==
  LET InGroup(e) == HasWord(e) /\ NormalizedWord[e.w] = key
  IN  SelectSeq(Encountered, InGroup)

InputKeys ==
  LET enc == Encountered
  IN  {NormalizedWord[enc[i].w] : i \in {j \in 1..Len(enc) : HasWord(enc[j])}}

\* The entries of a list that have a given canonical key.
EntriesFor(list, key) ==
  {i \in 1..Len(list) : NormalizedWord[list[i].w] = key}

\* A group that resolves to entry e shows in the output as exactly e when e
\* reaches min_frequency, and not at all otherwise.
ResolvesTo(key, e) ==
  IF e.f >= min_frequency
  THEN \E i \in 1..Len(merged_entries) :
         /\ EntriesFor(merged_entries, key) = {i}
         /\ merged_entries[i] = e
  ELSE EntriesFor(merged_entries, key) = {}

Merged == pc = "done" /\ result = TRUE

\* int(0.6*f1 + (0.4/(n-1))*(f2+...+fn)) in exact arithmetic.
ExactWeighted(m) ==
  LET n == Len(m)
  IN  (6 * m[1].f * (n - 1) + 4 * (SumF(m) - m[1].f)) \div (10 * (n - 1))

\* C1: under the weighted strategy a group of n >= 2 members resolves to the
\* first member's word with frequency trunc(0.6*f1 + (0.4/(n-1))*(f2+...+fn));
\* merging [{Hello,10}] and [{hello,5}] yields {Hello,8}.
C1_WeightedExact ==
  /\ MergedOutput(<< << [w |-> Hello, f |-> 10] >>, << [w |-> hello, f |-> 5] >> >>,
                  "weighted", 1) = << [w |-> Hello, f |-> 8] >>
  /\ (Merged /\ strategy = "weighted") =>
       \A key \in InputKeys :
         LET m == Members(key)
         IN  Len(m) >= 2 => ResolvesTo(key, [w |-> m[1].w, f |-> ExactWeighted(m)])

\* The first member with the highest frequency.
FirstMax(m) ==
  LET top == CHOOSE i \in 1..Len(m) :
               /\ \A j \in 1..Len(m) : m[j].f <= m[i].f
               /\ \A j \in 1..(i - 1) : m[j].f < m[i].f
  IN  m[top]

\* C2: under the max strategy a group of several members resolves to the word
\* and frequency of its member of highest frequency, the first-encountered
\* one when several members share that frequency.
C2_MaxKeepsFirstHighest ==
  (Merged /\ strategy = "max") =>
    \A key \in InputKeys :
      LET m == Members(key)
      IN  Len(m) >= 2 => ResolvesTo(key, [w |-> FirstMax(m).w, f |-> FirstMax(m).f])

C2_Witness ==
  /\ Merged /\ strategy = "max" /\ min_frequency = 1
  /\ \E key \in InputKeys :
       LET m == Members(key)
       IN  /\ Len(m) >= 2
           /\ m[1].f = m[Len(m)].f
           /\ m[1].w # m[Len(m)].w
           /\ FirstMax(m) = m[1]
           /\ \E i \in 1..Len(merged_entries) : merged_entries[i] = m[1]

\* key -> frequency of a list of entries.
KeyFrequency(list) == {<< NormalizedWord[list[i].w], list[i].f >> : i \in 1..Len(list)}

\* C3: under the sum strategy the output frequency of every canonical key is
\* the total of the frequencies of the input entries with that key, so the
\* files given in the other order yield the same key -> frequency mapping.
C3_SumCommutes ==
  (Merged /\ strategy = "sum") =>
    /\ \A key \in InputKeys :
         LET total == SumF(Members(key))
         IN  IF total >= min_frequency
             THEN /\ Cardinality(EntriesFor(merged_entries, key)) = 1
                  /\ \A i \in EntriesFor(merged_entries, key) :
                       /\ merged_entries[i].f = total
                       /\ merged_entries[i].w = Members(key)[1].w
             ELSE EntriesFor(merged_entries, key) = {}
    /\ \A i \in 1..Len(merged_entries) : NormalizedWord[merged_entries[i].w] \in InputKeys
    /\ KeyFrequency(merged_entries) =
         KeyFrequency(MergedOutput(<< stores[2], stores[1] >>, "sum", min_frequency))

C3_Witness ==
  /\ Merged /\ strategy = "sum"
  /\ \E key \in InputKeys :
       /\ \E i \in 1..Len(stores[1]) : HasWord(stores[1][i]) /\ NormalizedWord[stores[1][i].w] = key
       /\ \E i \in 1..Len(stores[2]) : HasWord(stores[2][i]) /\ NormalizedWord[stores[2][i].w] = key
       /\ stores[1][1].w # stores[2][1].w
       /\ \E i \in 1..Len(merged_entries) :
            /\ merged_entries[i].f = SumF(Members(key))
            /\ merged_entries[i].f > Members(key)[1].f
  /\ merged_entries # MergedOutput(<< stores[2], stores[1] >>, "sum", min_frequency)

\* The entries of a list whose frequency reaches minf, ranked by descending
\* frequency, equal frequencies in their order in the list.
RankFilter(list, minf) ==
  LET Kept(e) == e.f >= minf
  IN  SortDesc(SelectSeq(list, Kept), 1, << >>)

DistinctKeys(list) ==
  \A i, j \in 1..Len(list) :
    NormalizedWord[list[i].w] = NormalizedWord[list[j].w] => i = j

\* C4 as stated: merging [D, D] under max or avg yields D after min_freq
\* filtering, ranked, for every entry list D.
C4_SelfMergeIsInput ==
  (Merged /\ stores[1] = stores[2] /\ strategy \in {"max", "avg"}) =>
    merged_entries = RankFilter(stores[1], min_frequency)

\* C4 as amended: merging [D, D] under max or avg yields what merging D alone
\* yields, which is D after min_freq filtering, ranked, when no two entries
\* of D share a canonical key and no entry of D has an empty word.
C4_SelfMergeIsSingleMerge ==
  (Merged /\ stores[1] = stores[2] /\ strategy \in {"max", "avg"}) =>
    /\ merged_entries = MergedOutput(<< stores[1] >>, strategy, min_frequency)
    /\ (DistinctKeys(stores[1]) /\ \A i \in 1..Len(stores[1]) : HasWord(stores[1][i]))
         => merged_entries = RankFilter(stores[1], min_frequency)

C4_Witness ==
  /\ Merged /\ stores[1] = stores[2] /\ strategy = "avg"
  /\ Len(stores[1]) = 2
  /\ DistinctKeys(stores[1])
  /\ \A i \in 1..Len(stores[1]) : HasWord(stores[1][i])
  /\ Len(merged_entries) = 2
  /\ merged_entries # stores[1]

\* C10: no merge group is keyed by the empty canonical key, and no output
\* entry has a word whose canonical key is empty.
C10_EmptyKeyDropped ==
  pc = "done" =>
    /\ \A i \in 1..Len(word_groups) : word_groups[i].k # << >>
    /\ \A i \in 1..Len(merged_entries) : normalize_word(merged_entries[i].w) # << >>

\* What the strategy makes of the members of a canonical key.
Resolved(key) ==
  LET m == Members(key)
  IN  IF Len(m) > 1 THEN merge_func(strategy, m) ELSE m[1]

\* C11: the output holds exactly the groups whose resolved frequency is
\* >= min_frequency: every output entry has frequency >= min_frequency, and
\* every group that resolves to such a frequency is in the output, whatever
\* the frequencies of its members.
C11_FilterOnResolved ==
  Merged =>
    /\ \A i \in 1..Len(merged_entries) : merged_entries[i].f >= min_frequency
    /\ \A key \in InputKeys : ResolvesTo(key, Resolved(key))
    /\ Len(merged_entries) =
         Cardinality({key \in InputKeys : Resolved(key).f >= min_frequency})

C11_Witness ==
  /\ Merged /\ strategy = "sum" /\ min_frequency = 2
  /\ \E key \in InputKeys :
       /\ \A i \in 1..Len(Members(key)) : Members(key)[i].f < min_frequency
       /\ \E i \in 1..Len(merged_entries) : merged_entries[i] = Resolved(key)
  /\ \E key \in InputKeys :
       /\ Resolved(key).f >= min_frequency
       /\ Len(Members(key)) = 1

\* a / n rounded toward zero.
TruncDiv(a, n) == IF a >= 0 THEN a \div n ELSE 0 - ((0 - a) \div n)

\* C21: under the avg strategy a group of several members resolves to the
\* first member's word with frequency sum // count, and for every group the
\* loaders deliver this floor division is the integer-truncating average.
C21_AvgFloorIsTruncation ==
  (pc = "done" /\ result = TRUE /\ strategy = "avg") =>
    \A key \in InputKeys :
      LET m == Members(key)
      IN  Len(m) >= 2 =>
            /\ ResolvesTo(key, [w |-> m[1].w, f |-> SumF(m) \div Len(m)])
            /\ SumF(m) \div Len(m) = TruncDiv(SumF(m), Len(m))

\* C22: no two entries of the output have the same canonical key, and the
\* word of every output entry is the word, as written, of an input entry of
\* its group: where no member of the group is written like the canonical key,
\* the output word is not the canonical key.
C22_DedupedOriginalWords ==
  Merged =>
    /\ \A i, j \in 1..Len(merged_entries) :
         i # j => NormalizedWord[merged_entries[i].w] # NormalizedWord[merged_entries[j].w]
    /\ \A i \in 1..Len(merged_entries) :
         LET key == NormalizedWord[merged_entries[i].w]
             m == Members(key)
         IN  /\ \E k \in 1..Len(m) : m[k].w = merged_entries[i].w
             /\ (\A k \in 1..Len(m) : m[k].w # key) => merged_entries[i].w # key

\* Two output entries, one of them from a group of two spellings neither of
\* which is the canonical key.
C22_Witness ==
  /\ Merged /\ Len(merged_entries) = 2
  /\ \E i \in 1..2 :
       LET m == Members(NormalizedWord[merged_entries[i].w])
       IN  /\ Len(m) = 2
           /\ merged_entries[i].w = Hello
           /\ \A k \in 1..2 : m[k].w = Hello
  /\ \E i \in 1..2 : merged_entries[i].w = Cafe

\* C23: the merge step of a build run is never fed the output of an earlier
\* run: over unchanged base and downloaded dictionaries every run hands the
\* merge the same input files, none of them {language}_merged.json, and
\* leaves the same merged dictionary.
C23_MergeInputsStable ==
  \A i \in 1..Len(build_log) :
    /\ \A k \in 1..Len(build_log[i].inputs) :
         build_log[i].inputs[k] # MergedName(language)
    /\ build_log[i].inputs = build_log[1].inputs
    /\ build_log[i].merged = build_log[1].merged

\* The place in the concatenated input where a canonical key first appears.
FirstAppearance(key) ==
  LET enc == Encountered
  IN  CHOOSE i \in 1..Len(enc) :
        /\ HasWord(enc[i]) /\ NormalizedWord[enc[i].w] = key
        /\ \A j \in 1..(i - 1) : ~(HasWord(enc[j]) /\ NormalizedWord[enc[j].w] = key)

\* C12: the output is ordered by non-increasing frequency, and two output
\* entries of equal frequency stand in the order in which their canonical
\* keys first appeared in the concatenated input.
C12_SortedStable ==
  Merged =>
    \A i, j \in 1..Len(merged_entries) :
      i < j =>
        /\ merged_entries[i].f >= merged_entries[j].f
        /\ merged_entries[i].f = merged_entries[j].f =>
             FirstAppearance(NormalizedWord[merged_entries[i].w])
               < FirstAppearance(NormalizedWord[merged_entries[j].w])

\* Two entries of equal frequency, the first of which stands later in the
\* input than the second: its key appeared first, with a lower frequency.
C12_Witness ==
  /\ Merged /\ strategy = "max" /\ Len(merged_entries) = 2
  /\ merged_entries[1].f = merged_entries[2].f
  /\ Encountered[Len(Encountered)] = merged_entries[1]
  /\ \E i \in 1..(Len(Encountered) - 1) : Encountered[i] = merged_entries[2]

\* The highest threshold tried: one beyond every frequency of an input entry.
TopThreshold == 6 + 1

\* How many of the groups of the run the merge keeps at threshold k.
KeptAt(k) == Len(MergeGroups(word_groups, strategy, k, 1))

\* From threshold k on, every threshold keeps no more than the one before
\* it, which kept prev.
RECURSIVE NoMoreFrom(_, _)
NoMoreFrom(k, prev) ==
  k > TopThreshold + 1
    \/ LET kept == KeptAt(k)
       IN  kept <= prev /\ NoMoreFrom(k + 1, kept)

\* C13: for the same files and strategy, the merge with min_frequency k + 1
\* yields no more entries than the merge with min_frequency k, for k >= 1
\* The groups of a run do not depend on the threshold, so the merge at
\* threshold k yields KeptAt(k) entries; the thresholds beyond the next one
\* are tried once per input, in the run with threshold 1.
C13_ThresholdMonotone ==
  Merged =>
    /\ Len(merged_entries) = KeptAt(min_frequency)
    /\ KeptAt(min_frequency + 1) <= Len(merged_entries)
    /\ min_frequency = 1 =>
         /\ Len(MergedOutput(stores, strategy, 2)) = KeptAt(2)
         /\ NoMoreFrom(2, Len(merged_entries))

C13_Witness ==
  /\ Merged /\ min_frequency = 1 /\ Len(merged_entries) = 2
  /\ Len(MergedOutput(stores, strategy, 2)) = 1
  /\ Len(MergedOutput(stores, strategy, 6 + 1)) = 0

\* The lists of the input files that can be loaded, in command-line order.
RECURSIVE LoadableFrom(_)
LoadableFrom(i) ==
  IF i > Len(files) THEN << >>
  ELSE (IF files[i] = "list" THEN << stores[i] >> ELSE << >>) \o LoadableFrom(i + 1)

\* A record with a non-empty word and with a frequency.
WellFormed(e) == "w" \in DOMAIN e /\ e.w # << >> /\ "f" \in DOMAIN e

WellFormedOnly(list) == SelectSeq(list, WellFormed)

AllWellFormed ==
  \A i \in 1..Len(stores) : \A j \in 1..Len(stores[i]) : WellFormed(stores[i][j])

\* C14: a command-line run with a known strategy over well-formed files, one
\* of which is missing or cannot be read while another holds entries, reports
\* the failed file and writes the merge of the files that can be loaded.
C14_FailedSourceSkipped ==
  ( /\ pc = "exit"
    /\ strategy \in Strategies
    /\ AllWellFormed
    /\ \E i \in 1..Len(files) : files[i] \in {"missing", "invalid"}
    /\ \E i \in 1..Len(files) : files[i] = "list" /\ stores[i] # << >> )
  =>
    /\ \A i \in 1..Len(files) :
         files[i] \in {"missing", "invalid"} => \E m \in reported : m.file = i
    /\ output_file = << MergedOutput(LoadableFrom(1), strategy, min_frequency) >>

\* C15: a merge that leaves no entry ends in a reported failure and writes
\* no output file.
C15_NoEmptyArtifact ==
  (pc = "done" /\ merged_entries = << >>) =>
    /\ output_file = NoFile
    /\ result = FALSE

\* C16: merge_dictionaries called with a strategy that is none of max, sum,
\* avg, weighted loads nothing, merges nothing, writes nothing and reports an
\* error.
C16_UnknownStrategyRejected ==
  (pc = "done" /\ strategy \notin Strategies) =>
    /\ all_entries = << >>
    /\ merged_entries = << >>
    /\ output_file = NoFile
    /\ result = FALSE
    /\ reported # {}

\* C18: a record without a word, with an empty word or without a frequency is
\* skipped and nothing else: the call returns normally, with success when an
\* entry was loaded, and yields what the well-formed records alone yield.
C18_MalformedSkipped ==
  pc \in {"done", "raised"} =>
    /\ pc = "done"
    /\ LoadAll(files, stores) # << >> => result = TRUE
    /\ merged_entries =
         MergedOutput(<< WellFormedOnly(LoadAll(files, stores)) >>, strategy, min_frequency)

\* C19: when every input file contributes no entry (it cannot be loaded, it
\* is not a list, or it is an empty list), merge_dictionaries returns False,
\* reports that no entry was loaded, and writes no output file.
C19_EmptyInputFails ==
  (pc # "start" /\ \A i \in 1..Len(files) : files[i] # "list" \/ stores[i] = << >>) =>
    /\ pc = "done"
    /\ result = FALSE
    /\ Msg("no_entries", 0) \in reported
    /\ output_file = NoFile
    /\ merged_entries = << >>

C19_Witness ==
  /\ pc = "done"
  /\ files = << "notlist", "list" >>
  /\ stores[1] # << >> /\ stores[2] = << >>
  /\ result = FALSE
  /\ Msg("not_list", 1) \in reported
  /\ output_file = NoFile

\* ---------------------------------------------------- n-gram properties
\* The token sequence of a line: normalized, tokens of length <= 1 dropped.
LineTokens == [text \in TextLines |-> extract_words(text)]

TokensOf(l) == LineTokens[lines[l]]

\* The places (line, position) where a is followed by b, and by b then c.
PairPlaces(a, b) ==
  UNION {{<< l, i >> : i \in {j \in 1..(Len(TokensOf(l)) - 1) :
                                TokensOf(l)[j] = a /\ TokensOf(l)[j + 1] = b}} :
           l \in 1..Len(lines)}

TriplePlaces(a, b, c) ==
  UNION {{<< l, i >> : i \in {j \in 1..(Len(TokensOf(l)) - 2) :
                                /\ TokensOf(l)[j] = a
                                /\ TokensOf(l)[j + 1] = b
                                /\ TokensOf(l)[j + 2] = c}} :
           l \in 1..Len(lines)}

CountAt2(table, a, b) == Get(Get(table, a, EmptyMap), b, 0)

CountAt3(table, a, b, c) == Get(Get(Get(table, a, EmptyMap), b, EmptyMap), c, 0)

SumCounters(c1, c2) ==
  [x \in (DOMAIN c1) \cup (DOMAIN c2) |-> Get(c1, x, 0) + Get(c2, x, 0)]

\* The element-wise sum of two bigram tables.
SumTables(t1, t2) ==
  [x \in (DOMAIN t1) \cup (DOMAIN t2) |->
     SumCounters(Get(t1, x, EmptyMap), Get(t2, x, EmptyMap))]

\* C5: with min_freq = 1, the bigram tables of the two shards of any split of
\* the corpus into whole lines sum element-wise to the table of the corpus.
C5_BigramsAdditive ==
  (pc = "done" /\ min_freq = 1) =>
    \A k \in 0..Len(lines) :
      SumTables(ExtractedBigrams(SubSeq(lines, 1, k), 1),
                ExtractedBigrams(SubSeq(lines, k + 1, Len(lines)), 1)) = bigrams

C5_Witness ==
  /\ pc = "done" /\ min_freq = 1 /\ Len(lines) = 2
  /\ CountAt2(ExtractedBigrams(<< lines[1] >>, 1), the, cat) = 2
  /\ CountAt2(ExtractedBigrams(<< lines[2] >>, 1), the, cat) = 1
  /\ CountAt2(bigrams, the, cat) = 3

\* C6: without filtering, the count of a bigram (trigram) is the number of
\* places where its words are adjacent tokens of one line; the line
\* "the cat sat the cat ran" gives the scenario's tables.
\* The adjacent pairs and triples of tokens of the lines.
AdjacentPairs ==
  UNION {{<< TokensOf(l)[i], TokensOf(l)[i + 1] >> : i \in 1..(Len(TokensOf(l)) - 1)} :
           l \in 1..Len(lines)}

AdjacentTriples ==
  UNION {{<< TokensOf(l)[i], TokensOf(l)[i + 1], TokensOf(l)[i + 2] >> :
            i \in 1..(Len(TokensOf(l)) - 2)} : l \in 1..Len(lines)}

\* The n-grams a table holds.
PairsIn(table) == UNION {{<< a, b >> : b \in DOMAIN table[a]} : a \in DOMAIN table}

TriplesIn(table) ==
  UNION {{<< a, p[1], p[2] >> : p \in PairsIn(table[a])} : a \in DOMAIN table}

C6_CountsAdjacentTokens ==
  (pc = "done" /\ min_freq = 1) =>
    /\ PairsIn(bigrams) = AdjacentPairs
    /\ \A p \in AdjacentPairs : bigrams[p[1]][p[2]] = Cardinality(PairPlaces(p[1], p[2]))
    /\ TriplesIn(trigrams) = AdjacentTriples
    /\ \A t \in AdjacentTriples :
         trigrams[t[1]][t[2]][t[3]] = Cardinality(TriplePlaces(t[1], t[2], t[3]))
    /\ lines = << ScenarioLine >> =>
         /\ bigrams = (the :> (cat :> 2)) @@ (cat :> ((sat :> 1) @@ (ran :> 1)))
                        @@ (sat :> (the :> 1))
         /\ trigrams = (the :> (cat :> ((sat :> 1) @@ (ran :> 1))))
                         @@ (cat :> (sat :> (the :> 1)))
                         @@ (sat :> (the :> (cat :> 1)))

C6_Witness ==
  /\ pc = "done" /\ min_freq = 1
  /\ lines = << sat \o SP \o the \o NL, ScenarioLine >>
  /\ CountAt2(bigrams, the, cat) = 2
  /\ CountAt2(bigrams, sat, the) = 2
  /\ CountAt3(trigrams, sat, the, cat) = 1

\* C20: a corpus file that is missing or cannot be read ends the run with a
\* failure status and neither output file written; an output file is only
\* ever written after the whole file was read, and holds the returned table.
C20_UnreadableCorpusFatal ==
  /\ input_file # "readable" =>
       /\ output_bigrams = NoFile /\ output_trigrams = NoFile
       /\ pc \in {"reading", "exit"}
       /\ pc = "exit" => exit_code = 1
  /\ output_bigrams # NoFile =>
       /\ input_file = "readable" /\ line_count = Len(lines)
       /\ output_bigrams = << bigrams >>
  /\ output_trigrams # NoFile =>
       /\ input_file = "readable" /\ line_count = Len(lines)
       /\ output_trigrams = << trigrams >>

\* The read fails after a line that held n-grams.
C20_Witness ==
  /\ pc = "exit" /\ exit_code = 1
  /\ input_file = "unreadable"
  /\ line_count = 1 /\ Len(lines) = 2
  /\ CountAt2(bigrams, the, cat) = 2
  /\ output_bigrams = NoFile /\ output_trigrams = NoFile

\* C7: in the returned tables every count is >= min_freq, every n-gram whose
\* count reached min_freq is there with its full count, and no key at any
\* level maps to an empty mapping.
C7_FilteredAndPruned ==
  pc = "done" =>
    /\ \A a \in DOMAIN bigrams :
         /\ bigrams[a] # EmptyMap
         /\ \A b \in DOMAIN bigrams[a] : bigrams[a][b] >= min_freq
    /\ \A a \in DOMAIN trigrams :
         /\ trigrams[a] # EmptyMap
         /\ \A b \in DOMAIN trigrams[a] :
              /\ trigrams[a][b] # EmptyMap
              /\ \A c \in DOMAIN trigrams[a][b] : trigrams[a][b][c] >= min_freq
    /\ \A p \in AdjacentPairs :
         Cardinality(PairPlaces(p[1], p[2])) >= min_freq
           => CountAt2(bigrams, p[1], p[2]) = Cardinality(PairPlaces(p[1], p[2]))
    /\ \A t \in AdjacentTriples :
         Cardinality(TriplePlaces(t[1], t[2], t[3])) >= min_freq
           => CountAt3(trigrams, t[1], t[2], t[3]) = Cardinality(TriplePlaces(t[1], t[2], t[3]))

C7_Witness ==
  /\ pc = "done" /\ min_freq = 2
  /\ CountAt2(bigrams, the, cat) >= 2
  /\ << cat, sat >> \in AdjacentPairs
  /\ cat \notin DOMAIN bigrams
  /\ << the, cat, sat >> \in AdjacentTriples
  /\ trigrams = EmptyMap

\* -------------------------------------------------- normalizer properties
OnlyAZ(key) == \A i \in 1..Len(key) : IsAZ(key[i])

\* C8 as stated: the key of either normalize_word holds only a-z.
C8_KeysOnlyAZ ==
  pc = "done" => OnlyAZ(merge_key) /\ OnlyAZ(ngram_key)

\* Characters that are not letters the tools fold, and not whitespace.
IsOther(c) ==
  \/ c \in Digits \/ c \in {"'", "-", "_"}
  \/ c \in Range(OtherLower)

\* C8 as amended: the key of the extractor's normalize_word holds only a-z;
\* the key of the merge engine's normalize_word is trimmed, lowercased and
\* accent-folded but keeps every other character, and stripping these from
\* it gives the extractor's key.
C8_ExtractorKeyOnlyAZ ==
  pc = "done" =>
    /\ OnlyAZ(ngram_key)
    /\ ngram_key = SelectSeq(merge_key, IsAZ)
    /\ SelectSeq(merge_key, IsOther) = SelectSeq(lower(token), IsOther)
    /\ \A i \in 1..Len(merge_key) :
         /\ merge_key[i] \notin Range(UpperAlpha) \cup Range(OtherUpper)
         /\ merge_key[i] \notin Range(AccentLower) \cup Range(AccentUpper)
    /\ merge_key # << >> =>
         merge_key[1] \notin Whitespace /\ merge_key[Len(merge_key)] \notin Whitespace

C8_Witness ==
  /\ pc = "done"
  /\ token = << "E_acute", "1", "a" >>
  /\ merge_key = << "e", "1", "a" >>
  /\ ngram_key = << "e", "a" >>

\* The letter a character stands for when case and the listed accents are
\* ignored; a character that is no letter stands for itself.
BaseOf(c) ==
  IF c \in Range(UpperAlpha) THEN LowerAlpha[IndexOf(UpperAlpha, c)]
  ELSE IF c \in Range(AccentLower) THEN AccentBase[IndexOf(AccentLower, c)]
  ELSE IF c \in Range(AccentUpper) THEN AccentBase[IndexOf(AccentUpper, c)]
  ELSE IF c \in Range(OtherUpper) THEN OtherLower[IndexOf(OtherUpper, c)]
  ELSE c

\* The words that differ from w only in case and in the listed accents.
VariantChars ==
  [c \in ProbeChars \cup Range(LowerAlpha) \cup Range(UpperAlpha) |->
     {d \in ProbeChars \cup Range(UpperAlpha) \cup Range(OtherUpper) : BaseOf(d) = BaseOf(c)}]

RECURSIVE Variants(_)
Variants(w) ==
  IF w = << >> THEN {<< >>}
  ELSE {<< c >> \o v : c \in VariantChars[Head(w)], v \in Variants(Tail(w))}

\* C9: two words that differ only in case and in the listed accents get the
\* same key from either normalize_word (Cafe with an acute accent and CAFE
\* do), and every string, the empty one too, gets a key.
C9_CaseAndAccentsIgnored ==
  /\ normalize_word(Cafe) = normalize_word(CAFE)
  /\ ngram_normalize_word(Cafe) = ngram_normalize_word(CAFE)
  /\ pc = "done" =>
       /\ \A v \in Variants(token) :
            normalize_word(v) = merge_key /\ ngram_normalize_word(v) = ngram_key
       /\ merge_key \in Seq(ProbeChars \cup Range(LowerAlpha))
       /\ ngram_key \in Seq(Range(LowerAlpha))
       /\ token = << >> => merge_key = << >> /\ ngram_key = << >>

C9_Witness ==
  /\ pc = "done"
  /\ token = Cafe
  /\ CAFE \in Variants(token)
  /\ merge_key = cafe
  /\ ngram_key = cafe

\* ---------------------------------------------------- loader properties
\* C17: every entry a converter of frequency lists accepts has a frequency
\* that is a non-negative integer.
C17_AcceptedNonNegative ==
  \A i \in 1..Len(json_entries) : json_entries[i].f >= 0

====
